---- MODULE Spec2Model ----
(***************************************************************************)
(* FactorLab backtest core: the Portfolio ledger (portfolio.py), the       *)
(* Rebalancer's trade planner and the Backtester's day-by-day loop         *)
(* (backtester.py).  Python floats are modelled as exact rationals         *)
(* [n |-> numerator, d |-> denominator] in lowest terms, d > 0; dates are  *)
(* day numbers, day 1 being January 1st of EpochYear.                      *)
(***************************************************************************)
EXTENDS Integers, Sequences, FiniteSets, TLC

VARIABLES
    initial_cash,   \* Portfolio.__init__'s argument, kept for the accounting claims
    cash,           \* Portfolio.cash
    positions,      \* Portfolio.positions: ticker -> Position
    call,           \* the last call made: its operation, ticker and date
    raised,         \* the exception that call raised, "None" when it returned
    ret,            \* the value that call returned (calculate_trades: the trades)
    net_trades,     \* sum of sell proceeds minus sum of buy costs, over the
                    \* buys and sells that returned without raising
    nCalls,         \* number of calls made so far, outside a backtest
    \* Backtester.run
    frequency,          \* config.rebalance_frequency
    transaction_cost,   \* config.transaction_cost, in basis points
    start_date,         \* config.start_date
    end_date,           \* config.end_date
    weights,            \* run's target_weights argument
    current_date,       \* the loop variable date
    prices_dict,        \* prices_dict of the current date
    rebalancing,        \* what _should_rebalance returned for the current date
    rebalancing_trades, \* the trades of the current date still to be applied
    last_rebalance_date,
    equity_records,
    trade_records,
    pc,                 \* where run is: "idle" (no run), "date", "trades",
                        \* "record", "done" (returned), "aborted" (raised)
    result              \* the BacktestResult returned, NoResult before

ledgerVars == <<initial_cash, cash, positions, call, raised, ret, net_trades, nCalls>>

\* run's locals other than the arguments handed to the planner
runLocals == <<frequency, transaction_cost, start_date, end_date,
               current_date, rebalancing,
               rebalancing_trades, last_rebalance_date, equity_records,
               trade_records, pc, result>>

runVars == <<runLocals, weights, prices_dict>>

vars == <<ledgerVars, runVars>>

\* ---------------------------------------------------------------- bounds
MaxCalls == 2
MaxInitialCash == 2
MaxQty == 2
MaxPrice == 2

\* ------------------------------------------------------- exact arithmetic
Abs(x) == IF x < 0 THEN -x ELSE x

RECURSIVE Gcd(_, _)
Gcd(a, b) == IF b = 0 THEN a ELSE Gcd(b, a % b)

\* the rational n/d in lowest terms with a positive denominator (d # 0)
Rat(n, d) ==
    LET g == Gcd(Abs(n), Abs(d))
        s == IF d < 0 THEN -1 ELSE 1
    IN  [n |-> s * (n \div g), d |-> s * (d \div g)]

R(k) == [n |-> k, d |-> 1]
RZero == R(0)
RAdd(x, y) == Rat(x.n * y.d + y.n * x.d, x.d * y.d)
RNeg(x) == [n |-> -x.n, d |-> x.d]
RSub(x, y) == RAdd(x, RNeg(y))
RMul(x, y) == Rat(x.n * y.n, x.d * y.d)
\* x / y for y # 0 (Python raises ZeroDivisionError for y = 0: see buy)
RDiv(x, y) == Rat(x.n * y.d, x.d * y.n)
RLt(x, y) == x.n * y.d < y.n * x.d
RLe(x, y) == x.n * y.d <= y.n * x.d

\* sum(f[x] for x in S)
RECURSIVE RSum(_, _)
RSum(f, S) ==
    IF S = {} THEN RZero
    ELSE LET x == CHOOSE x \in S : TRUE
         IN  RAdd(f[x], RSum(f, S \ {x}))

\* ------------------------------------------------------------------ data
Tickers == {"AAPL", "MSFT"}
\* the deterministic order of tickers within one side of a rebalance
TickerOrder == <<"AAPL", "MSFT">>
\* two distinct trade dates, in calendar order
Dates == {1, 2}

Position(ticker, shares, entry_price, entry_date) ==
    [ticker |-> ticker, shares |-> shares,
     entry_price |-> entry_price, entry_date |-> entry_date]

Trade(date, ticker, shares, price, side) ==
    [date |-> date, ticker |-> ticker, shares |-> shares,
     price |-> price, side |-> side]

NoPositions == [t \in {} |-> 0]
Call(op, ticker, date) == [op |-> op, ticker |-> ticker, date |-> date]
NoCall == Call("init", "", 0)

\* None, for a date
NoDate == 0
\* None, for the result of run
NoResult == [equity_curve |-> <<>>, trades |-> <<>>, returned |-> FALSE]
NoDict == [t \in {} |-> RZero]
\* None, for the prices argument of get_total_value: no ticker is called None
NoPrices == [t \in {"None"} |-> RZero]

\* ------------------------------------------------------------- Portfolio
\* no backtest is running
Idle ==
    /\ frequency = "daily"
    /\ transaction_cost = RZero
    /\ start_date = NoDate
    /\ end_date = NoDate
    /\ weights = NoDict
    /\ current_date = NoDate
    /\ prices_dict = NoDict
    /\ rebalancing = FALSE
    /\ rebalancing_trades = <<>>
    /\ last_rebalance_date = NoDate
    /\ equity_records = <<>>
    /\ trade_records = <<>>
    /\ pc = "idle"
    /\ result = NoResult

\* Portfolio(initial_cash=amount)
Portfolio(amount) ==
    /\ initial_cash = amount
    /\ cash = initial_cash
    /\ positions = NoPositions
    /\ call = NoCall
    /\ raised = "None"
    /\ ret = <<>>
    /\ net_trades = RZero
    /\ nCalls = 0

\* a new ledger, empty-handed or with MaxInitialCash
NewPortfolio == \E amount \in {R(0), R(MaxInitialCash)} : Portfolio(amount)

Init == NewPortfolio /\ Idle

\* a variant of PriceOrZero that prices an unpriced holding at its cost
PriceOrCost(prices, ticker) ==
    IF ticker \in DOMAIN prices THEN prices[ticker]
    ELSE IF ticker \in DOMAIN positions THEN positions[ticker].entry_price
    ELSE RZero

\* prices.get(ticker, 0.0)
PriceOrZero(prices, ticker) ==
    IF ticker \in DOMAIN prices THEN prices[ticker] ELSE RZero

\* a variant of get_total_value that counts the cash only
get_cash_value(prices) == cash

\* a variant of get_total_value that values an unpriced position at its cost
get_total_value_at_cost(prices) ==
    IF prices = NoPrices THEN cash
    ELSE LET value == [t \in DOMAIN positions |->
                         RMul(positions[t].shares,
                              IF t \in DOMAIN prices THEN prices[t]
                              ELSE positions[t].entry_price)]
         IN  RAdd(cash, RSum(value, DOMAIN positions))

\* Portfolio.get_total_value(prices), prices a dict or None
get_total_value(prices) ==
    IF prices = NoPrices THEN cash
    ELSE LET value == [t \in DOMAIN positions |->
                         RMul(positions[t].shares, PriceOrZero(prices, t))]
         IN  RAdd(cash, RSum(value, DOMAIN positions))

\* what every call records before it runs
Enter(c) ==
    /\ pc = "idle" => nCalls < MaxCalls
    /\ nCalls' = IF pc = "idle" THEN nCalls + 1 ELSE nCalls
    /\ call' = c
    /\ UNCHANGED initial_cash

\* a variant of AveragedPosition that restamps the position with the new date
AveragedPositionRestamped(existing, shares, price, date) ==
    LET total_shares == RAdd(existing.shares, shares)
        avg_price == RDiv(RAdd(RMul(existing.shares, existing.entry_price),
                               RMul(shares, price)),
                          total_shares)
    IN  Position(existing.ticker, total_shares, avg_price, date)

\* a variant of AveragedPosition that takes the plain mean of the two prices
AveragedPositionUnweighted(existing, shares, price, date) ==
    LET total_shares == RAdd(existing.shares, shares)
        avg_price == RDiv(RAdd(existing.entry_price, price), R(2))
    IN  Position(existing.ticker, total_shares, avg_price, existing.entry_date)

\* the position buy() stores for a ticker already held (total_shares # 0)
AveragedPosition(existing, shares, price, date) ==
    LET total_shares == RAdd(existing.shares, shares)
        avg_price == RDiv(RAdd(RMul(existing.shares, existing.entry_price),
                               RMul(shares, price)),
                          total_shares)
    IN  Position(existing.ticker, total_shares, avg_price, existing.entry_date)

\* a variant of buy that takes no cash for the shares
buy_on_credit(ticker, shares, price, date) ==
    /\ Enter(Call("buy", ticker, date))
    /\ ret' = <<>>
    /\ raised' = IF RLt(cash, RMul(shares, price)) THEN "Insufficient cash"
                 ELSE "None"
    /\ IF raised' # "None"
       THEN UNCHANGED <<cash, positions, net_trades>>
       ELSE /\ UNCHANGED <<cash, net_trades>>
            /\ positions' = [t \in DOMAIN positions \cup {ticker} |->
                                IF t = ticker
                                THEN Position(ticker, shares, price, date)
                                ELSE positions[t]]

\* Portfolio.buy
buy(ticker, shares, price, date) ==
    LET cost == RMul(shares, price) IN
    /\ Enter(Call("buy", ticker, date))
    /\ ret' = <<>>
    /\ IF RLt(cash, cost)
       THEN /\ raised' = "Insufficient cash"
            /\ UNCHANGED <<cash, positions, net_trades>>
       ELSE /\ cash' = RSub(cash, cost)
            /\ IF ticker \in DOMAIN positions
               THEN IF RAdd(positions[ticker].shares, shares) = RZero
                    THEN \* avg_price divides by total_shares = 0, after the
                         \* cash was deducted
                         /\ raised' = "ZeroDivisionError"
                         /\ UNCHANGED <<positions, net_trades>>
                    ELSE /\ positions' = [positions EXCEPT ![ticker] =
                                AveragedPosition(positions[ticker], shares, price, date)]
                         /\ raised' = "None"
                         /\ net_trades' = RSub(net_trades, cost)
               ELSE /\ positions' = positions @@
                          (ticker :> Position(ticker, shares, price, date))
                    /\ raised' = "None"
                    /\ net_trades' = RSub(net_trades, cost)

\* a variant of SellError that looks the ticker up before validating shares
SellErrorLookupFirst(ticker, shares) ==
    IF ticker \notin DOMAIN positions THEN "No position"
    ELSE IF RLe(shares, RZero) THEN "Shares must be positive"
    ELSE IF RLt(positions[ticker].shares, shares) THEN "Insufficient shares"
    ELSE "None"

\* the checks sell() makes, in order: the ValueError it raises, else "None"
SellError(ticker, shares) ==
    IF RLe(shares, RZero) THEN "Shares must be positive"
    ELSE IF ticker \notin DOMAIN positions THEN "No position"
    ELSE IF RLt(positions[ticker].shares, shares) THEN "Insufficient shares"
    ELSE "None"

\* a variant of SoldPositions that keeps a position sold down to zero shares
SoldPositionsKeepEmpty(ticker, shares) ==
    [positions EXCEPT ![ticker].shares = RSub(positions[ticker].shares, shares)]

\* positions after a sell that passed the checks
SoldPositions(ticker, shares) ==
    IF shares = positions[ticker].shares
    THEN [t \in DOMAIN positions \ {ticker} |-> positions[t]]
    ELSE [positions EXCEPT ![ticker].shares = RSub(positions[ticker].shares, shares)]

\* a variant of sell that pays out the position's cost, not the sale price
sell_at_cost(ticker, shares, price, date) ==
    /\ Enter(Call("sell", ticker, date))
    /\ ret' = <<>>
    /\ raised' = SellError(ticker, shares)
    /\ IF SellError(ticker, shares) # "None"
       THEN UNCHANGED <<cash, positions, net_trades>>
       ELSE /\ cash' = RAdd(cash, RMul(shares, positions[ticker].entry_price))
            /\ net_trades' = RAdd(net_trades,
                                  RMul(shares, positions[ticker].entry_price))
            /\ positions' = SoldPositions(ticker, shares)

\* Portfolio.sell
sell(ticker, shares, price, date) ==
    /\ Enter(Call("sell", ticker, date))
    /\ ret' = <<>>
    /\ raised' = SellError(ticker, shares)
    /\ IF SellError(ticker, shares) # "None"
       THEN UNCHANGED <<cash, positions, net_trades>>
       ELSE /\ cash' = RAdd(cash, RMul(shares, price))
            /\ net_trades' = RAdd(net_trades, RMul(shares, price))
            /\ positions' = SoldPositions(ticker, shares)

\* ------------------------------------------------------------ Rebalancer
\* Rebalancer.calculate_trades, after the design document's section 4.2
\* (rebalancer.py itself is not among the sources).

\* target_weights.get(ticker, 0)
TargetWeight(target_weights, ticker) ==
    IF ticker \in DOMAIN target_weights THEN target_weights[ticker] ELSE RZero

\* shares of ticker held in the ledger, else 0
CurrentShares(ticker) ==
    IF ticker \in DOMAIN positions THEN positions[ticker].shares ELSE RZero

\* a variant of Universe that looks at the targeted tickers only
TargetedOnly(target_weights) == DOMAIN target_weights

\* the tickers a rebalance looks at: targeted or held
Universe(target_weights) == DOMAIN target_weights \cup DOMAIN positions

\* a variant of PlanError that looks for a missing price before it values
\* the ledger
PlanErrorPricesFirst(target_weights, prices) ==
    IF \E t \in Universe(target_weights) :
           /\ t \notin DOMAIN prices
           /\ \/ TargetWeight(target_weights, t) # RZero
              \/ CurrentShares(t) # RZero
    THEN "MissingPrice"
    ELSE IF RLe(get_total_value(prices), RZero) THEN "InvalidState"
    ELSE "None"

\* a variant of PlanError that never reports a missing price
PlanErrorTotalOnly(target_weights, prices) ==
    IF RLe(get_total_value(prices), RZero) THEN "InvalidState" ELSE "None"

\* the error calculate_trades fails with, else "None".  A ticker that needs
\* a price (a non-zero target, or shares to liquidate) and has none is a
\* missing price.
PlanError(target_weights, prices) ==
    IF RLe(get_total_value(prices), RZero) THEN "InvalidState"
    ELSE IF \E t \in Universe(target_weights) :
                /\ t \notin DOMAIN prices
                /\ \/ TargetWeight(target_weights, t) # RZero
                   \/ CurrentShares(t) # RZero
    THEN "MissingPrice"
    ELSE "None"

\* a variant of Delta that forgets the shares already held
DeltaIgnoringHoldings(target_weights, prices, total, ticker) ==
    RDiv(RMul(TargetWeight(target_weights, ticker), total), prices[ticker])

\* delta = target_shares - current_shares for a priced ticker, total being
\* the ledger's total value
Delta(target_weights, prices, total, ticker) ==
    LET target_value == RMul(TargetWeight(target_weights, ticker), total)
        target_shares == RDiv(target_value, prices[ticker])
    IN  RSub(target_shares, CurrentShares(ticker))

\* the trades of the tickers TickerOrder[i..], one per ticker with delta # 0
RECURSIVE DeltaTrades(_, _, _, _, _)
DeltaTrades(i, target_weights, prices, total, trade_date) ==
    IF i > Len(TickerOrder) THEN <<>>
    ELSE LET t == TickerOrder[i]
             rest == DeltaTrades(i + 1, target_weights, prices, total, trade_date)
         IN  IF t \notin Universe(target_weights) \/ t \notin DOMAIN prices
             THEN rest
             ELSE LET delta == Delta(target_weights, prices, total, t)
                  IN  IF delta = RZero THEN rest
                      ELSE IF RLt(RZero, delta)
                      THEN <<Trade(trade_date, t, delta, prices[t], "buy")>> \o rest
                      ELSE <<Trade(trade_date, t, RNeg(delta), prices[t], "sell")>> \o rest

IsSell(trade) == trade.side = "sell"
IsBuy(trade) == trade.side = "buy"

\* a variant of SellsThenBuys that leaves the trades in ticker order
TickerOrderOnly(trades) == trades

\* the ordering invariant: all sells, then all buys
SellsThenBuys(trades) == SelectSeq(trades, IsSell) \o SelectSeq(trades, IsBuy)

\* a variant of calculate_trades that closes every position while planning
calculate_trades_liquidating(target_weights, prices, trade_date) ==
    LET error == PlanError(target_weights, prices)
        total == get_total_value(prices)
    IN  /\ Enter(Call("calculate_trades", "", trade_date))
        /\ raised' = error
        /\ ret' = IF error # "None" THEN <<>>
                  ELSE SellsThenBuys(DeltaTrades(1, target_weights, prices,
                                                 total, trade_date))
        /\ positions' = NoPositions
        /\ UNCHANGED <<cash, net_trades>>

calculate_trades(target_weights, prices, trade_date) ==
    LET error == PlanError(target_weights, prices)
        total == get_total_value(prices)
    IN  /\ Enter(Call("calculate_trades", "", trade_date))
        /\ raised' = error
        /\ ret' = IF error # "None" THEN <<>>
                  ELSE SellsThenBuys(DeltaTrades(1, target_weights, prices,
                                                 total, trade_date))
        /\ UNCHANGED <<cash, positions, net_trades>>

\* ----------------------------------------------------------------- inputs
\* closing prices of the price table
ClosePrices == {R(k) : k \in 1..MaxPrice}
\* share counts and prices passed to buy and sell: the valid ones, and the
\* non-positive ones the ledger is also called with
ValidShares == {R(k) : k \in 1..MaxQty}
ShareArgs == {R(-1), RZero} \cup ValidShares
PriceArgs == {R(-1)} \cup ClosePrices
WeightArgs == {RZero, Rat(1, 2), R(1)}

\* the dicts with keys among Tickers and values in V
Dicts(V) == UNION {[S -> V] : S \in SUBSET Tickers}

\* calls on the ledger, with any arguments
LedgerCall ==
    \/ \E t \in Tickers, s \in ShareArgs, p \in PriceArgs, d \in Dates : buy(t, s, p, d)
    \/ \E t \in Tickers, s \in ShareArgs, p \in PriceArgs, d \in Dates : sell(t, s, p, d)

Next == LedgerCall /\ UNCHANGED runVars

Spec == Init /\ [][Next]_vars

\* the earlier of the two trade dates
OpeningDate == CHOOSE d \in Dates : \A e \in Dates : d <= e

\* orders as a rebalance places them: positive shares at a closing price,
\* all on the opening date (the planner reads neither dates nor cost basis)
ValidLedgerCall ==
    \/ \E t \in Tickers, s \in ValidShares, p \in ClosePrices : buy(t, s, p, OpeningDate)
    \/ \E t \in Tickers, s \in ValidShares, p \in ClosePrices : sell(t, s, p, OpeningDate)

\* a ledger built by such orders, then handed to the planner once, the
\* arguments of that call kept in weights and prices_dict
NextPlan ==
    \/ call.op # "calculate_trades" /\ ValidLedgerCall /\ UNCHANGED runVars
    \/ \E w \in Dicts(WeightArgs), pr \in Dicts(ClosePrices), d \in Dates :
           /\ call.op # "calculate_trades"
           /\ calculate_trades(w, pr, d)
           /\ weights' = w
           /\ prices_dict' = pr
           /\ UNCHANGED runLocals

SpecPlan == Init /\ [][NextPlan]_vars

\* ------------------------------------------------------------ Backtester
\* datetime.date: the calendar date of a day number
EpochYear == 2020

IsLeap(year) == (year % 4 = 0 /\ year % 100 # 0) \/ year % 400 = 0

DaysInMonth(year, month) ==
    IF month = 2 THEN (IF IsLeap(year) THEN 29 ELSE 28)
    ELSE IF month \in {4, 6, 9, 11} THEN 30 ELSE 31

\* the date that is day number day of the given month, counting on into the
\* following months
RECURSIVE DateFrom(_, _, _)
DateFrom(year, month, day) ==
    IF day <= DaysInMonth(year, month)
    THEN [year |-> year, month |-> month, day |-> day]
    ELSE IF month = 12
    THEN DateFrom(year + 1, 1, day - DaysInMonth(year, month))
    ELSE DateFrom(year, month + 1, day - DaysInMonth(year, month))

DateOf(n) == DateFrom(EpochYear, 1, n)

\* the exception _should_rebalance raises, else "None": the weekly branch
\* subtracts last_rebalance_date from current_date, None on the first date
ScheduleError(today, last, freq) ==
    IF freq = "weekly" /\ last = NoDate THEN "TypeError" ELSE "None"

\* a variant of should_rebalance whose never branch always rebalances
should_rebalance_ignoring_last(today, last, freq) ==
    IF freq = "never" THEN TRUE
    ELSE IF freq = "daily" THEN TRUE
    ELSE IF freq = "weekly" THEN today - last >= 7
    ELSE IF freq = "monthly"
    THEN \/ last = NoDate
         \/ DateOf(last).month # DateOf(today).month
         \/ DateOf(last).year # DateOf(today).year
    ELSE FALSE

\* a variant of should_rebalance whose monthly branch compares the months only
should_rebalance_month_only(today, last, freq) ==
    IF freq = "never" THEN last = NoDate
    ELSE IF freq = "daily" THEN TRUE
    ELSE IF freq = "weekly" THEN today - last >= 7
    ELSE IF freq = "monthly"
    THEN \/ last = NoDate
         \/ DateOf(last).month # DateOf(today).month
    ELSE FALSE

\* Backtester._should_rebalance, where it returns
should_rebalance(today, last, freq) ==
    IF freq = "never" THEN last = NoDate
    ELSE IF freq = "daily" THEN TRUE
    ELSE IF freq = "weekly" THEN today - last >= 7
    ELSE IF freq = "monthly"
    THEN \/ last = NoDate
         \/ DateOf(last).month # DateOf(today).month
         \/ DateOf(last).year # DateOf(today).year
    ELSE FALSE

\* a variant of get_unrealized_pnl that prices an unpriced position at 0
get_unrealized_pnl_zero_priced(prices) ==
    RSum([t \in DOMAIN positions |->
             RMul(positions[t].shares,
                  RSub(PriceOrZero(prices, t), positions[t].entry_price))],
         DOMAIN positions)

\* Portfolio.get_unrealized_pnl(prices), after the design document's section
\* 4.1 (the method is not in portfolio.py): shares*(price - average cost)
\* summed over the positions that have a price
get_unrealized_pnl(prices) ==
    LET priced == DOMAIN positions \cap DOMAIN prices
    IN  RSum([t \in priced |->
                 RMul(positions[t].shares,
                      RSub(prices[t], positions[t].entry_price))],
             priced)

\* Portfolio.get_holdings_value(prices), after the design document's section
\* 4.1 (the method is not in portfolio.py): market value per held ticker, a
\* ticker without a price counting 0
get_holdings_value(prices) ==
    [t \in DOMAIN positions |-> RMul(positions[t].shares, PriceOrZero(prices, t))]

\* one row of the equity curve
EquityRecord(date, portfolio_value, cash_value, positions_value) ==
    [date |-> date, portfolio_value |-> portfolio_value,
     cash |-> cash_value, positions_value |-> positions_value]

\* BacktestResult(equity_curve, trades)
BacktestResult(equity_curve, trades) ==
    [equity_curve |-> equity_curve, trades |-> trades, returned |-> TRUE]

\* run configurations
CostArgs == {RZero, R(10)}
Frequencies == {"daily", "weekly", "monthly", "never", "hourly"}
\* January 30th and 31st: a run from either crosses into February
StartDates == {30, 31}
\* longest date range of a run, in days
MaxRunDays == 3

\* the rows of the price table for one date: rows for the first tickers of
\* TickerOrder (none at all on a date without data), the close of the first
\* ticker moving between 1 and MaxPrice
DailyPrices ==
    {pr \in Dicts({R(1), R(MaxPrice)}) :
        /\ \E k \in 0..Len(TickerOrder) :
               DOMAIN pr = {TickerOrder[i] : i \in 1..k}
        /\ \A i \in 2..Len(TickerOrder) :
               TickerOrder[i] \in DOMAIN pr => pr[TickerOrder[i]] = R(1)}

\* the example of run's docstring: 10000 in cash, all of it targeted at AAPL,
\* over January 1st and 2nd, AAPL closing at 100 and then at 110
ExampleCash == 10000
ExampleStart == 1
ExampleCloses == <<R(100), R(110)>>
ExampleWeights == [t \in {"AAPL"} |-> R(1)]

\* the rows of the example's price table for a date
ExampleRows(date) ==
    IF date - ExampleStart + 1 \in DOMAIN ExampleCloses
    THEN [t \in {"AAPL"} |-> ExampleCloses[date - ExampleStart + 1]]
    ELSE NoDict

\* the rows a run may find in its price table for a date: the example's run
\* reads the example's table, every other run any of DailyPrices
PricesOn(date) ==
    IF initial_cash = R(ExampleCash) THEN {ExampleRows(date)} ELSE DailyPrices

\* run(prices, target_weights, config) up to the loop over the dates
InitRun ==
    /\ \/ /\ NewPortfolio
          /\ frequency \in Frequencies
          /\ start_date \in StartDates
          /\ end_date \in {start_date + n - 1 : n \in 0..MaxRunDays}
          /\ weights \in Dicts(WeightArgs)
       \/ /\ Portfolio(R(ExampleCash))
          /\ frequency \in {"daily", "never"}
          /\ start_date = ExampleStart
          /\ end_date = ExampleStart + Len(ExampleCloses) - 1
          /\ weights = ExampleWeights
    /\ transaction_cost \in CostArgs
    /\ current_date = start_date
    /\ prices_dict = NoDict
    /\ rebalancing = FALSE
    /\ rebalancing_trades = <<>>
    /\ last_rebalance_date = NoDate
    /\ equity_records = <<>>
    /\ trade_records = <<>>
    /\ pc = "date"
    /\ result = NoResult

\* the head of the loop body for the next date: the day's prices, the
\* scheduling decision and, when rebalancing, the planner call
StartDate ==
    /\ pc = "date"
    /\ current_date <= end_date
    /\ \E pr \in PricesOn(current_date) :
          /\ prices_dict' = pr
          /\ IF ScheduleError(current_date, last_rebalance_date, frequency) # "None"
             THEN /\ call' = Call("_should_rebalance", "", current_date)
                  /\ raised' = ScheduleError(current_date, last_rebalance_date,
                                             frequency)
                  /\ pc' = "aborted"
                  /\ UNCHANGED <<initial_cash, cash, positions, ret, net_trades,
                                 nCalls, rebalancing, rebalancing_trades>>
             ELSE IF ~should_rebalance(current_date, last_rebalance_date, frequency)
             THEN /\ rebalancing' = FALSE
                  /\ pc' = "record"
                  /\ UNCHANGED <<ledgerVars, rebalancing_trades>>
             ELSE /\ calculate_trades(weights, pr, current_date)
                  /\ rebalancing' = TRUE
                  /\ rebalancing_trades' = ret'
                  /\ pc' = IF raised' # "None" THEN "aborted"
                           ELSE IF ret' = <<>> THEN "record" ELSE "trades"
    /\ UNCHANGED <<frequency, transaction_cost, start_date, end_date, weights, current_date,
                   last_rebalance_date, equity_records, trade_records, result>>

\* a variant of ApplyTrade that skips a failed trade and carries on
ApplyTradeSkipping ==
    /\ pc = "trades"
    /\ LET trade == Head(rebalancing_trades) IN
          /\ IF IsSell(trade)
             THEN sell(trade.ticker, trade.shares, trade.price, trade.date)
             ELSE buy(trade.ticker, trade.shares, trade.price, trade.date)
          /\ rebalancing_trades' = Tail(rebalancing_trades)
          /\ trade_records' = IF raised' # "None" THEN trade_records
                              ELSE Append(trade_records, trade)
          /\ pc' = IF Tail(rebalancing_trades) = <<>> THEN "record" ELSE "trades"
    /\ UNCHANGED <<frequency, transaction_cost, start_date, end_date,
                   weights, current_date, prices_dict, rebalancing, last_rebalance_date, equity_records,
                   result>>

\* a variant of ApplyTrade that charges transaction_cost basis points of the
\* close on top of every buy and off every sell
ApplyTradeCharging ==
    /\ pc = "trades"
    /\ LET trade == Head(rebalancing_trades) IN
          /\ IF IsSell(trade)
             THEN sell(trade.ticker, trade.shares,
                       RMul(trade.price, RSub(R(1), RDiv(transaction_cost, R(10000)))),
                       trade.date)
             ELSE buy(trade.ticker, trade.shares,
                      RMul(trade.price, RAdd(R(1), RDiv(transaction_cost, R(10000)))),
                      trade.date)
          /\ IF raised' # "None"
             THEN /\ pc' = "aborted"
                  /\ UNCHANGED <<rebalancing_trades, trade_records>>
             ELSE /\ rebalancing_trades' = Tail(rebalancing_trades)
                  /\ trade_records' = Append(trade_records, trade)
                  /\ pc' = IF Tail(rebalancing_trades) = <<>> THEN "record"
                           ELSE "trades"
    /\ UNCHANGED <<frequency, transaction_cost, start_date, end_date,
                   weights, current_date, prices_dict, rebalancing, last_rebalance_date, equity_records,
                   result>>

\* a variant of ApplyTrade that logs the trade whether or not it was applied
ApplyTradeLoggingFirst ==
    /\ pc = "trades"
    /\ LET trade == Head(rebalancing_trades) IN
          /\ IF IsSell(trade)
             THEN sell(trade.ticker, trade.shares, trade.price, trade.date)
             ELSE buy(trade.ticker, trade.shares, trade.price, trade.date)
          /\ IF raised' # "None"
             THEN /\ pc' = "aborted"
                  /\ trade_records' = Append(trade_records, trade)
                  /\ UNCHANGED rebalancing_trades
             ELSE /\ rebalancing_trades' = Tail(rebalancing_trades)
                  /\ trade_records' = Append(trade_records, trade)
                  /\ pc' = IF Tail(rebalancing_trades) = <<>> THEN "record"
                           ELSE "trades"
    /\ UNCHANGED <<frequency, transaction_cost, start_date, end_date,
                   weights, current_date, prices_dict, rebalancing, last_rebalance_date, equity_records,
                   result>>

\* a variant of ApplyTrade that takes the trades from the last to the first
ApplyTradeBackwards ==
    /\ pc = "trades"
    /\ LET trade == rebalancing_trades[Len(rebalancing_trades)] IN
          /\ IF IsSell(trade)
             THEN sell(trade.ticker, trade.shares, trade.price, trade.date)
             ELSE buy(trade.ticker, trade.shares, trade.price, trade.date)
          /\ IF raised' # "None"
             THEN /\ pc' = "aborted"
                  /\ UNCHANGED <<rebalancing_trades, trade_records>>
             ELSE /\ rebalancing_trades' = SubSeq(rebalancing_trades, 1,
                                                    Len(rebalancing_trades) - 1)
                  /\ trade_records' = Append(trade_records, trade)
                  /\ pc' = IF Len(rebalancing_trades) = 1 THEN "record"
                           ELSE "trades"
    /\ UNCHANGED <<frequency, transaction_cost, start_date, end_date,
                   weights, current_date, prices_dict, rebalancing, last_rebalance_date, equity_records,
                   result>>

\* one turn of the loop over rebalancing_trades: the trade goes to sell or to
\* buy and, if that returned, into trade_records
ApplyTrade ==
    /\ pc = "trades"
    /\ LET trade == Head(rebalancing_trades) IN
          /\ IF IsSell(trade)
             THEN sell(trade.ticker, trade.shares, trade.price, trade.date)
             ELSE buy(trade.ticker, trade.shares, trade.price, trade.date)
          /\ IF raised' # "None"
             THEN /\ pc' = "aborted"
                  /\ UNCHANGED <<rebalancing_trades, trade_records>>
             ELSE /\ rebalancing_trades' = Tail(rebalancing_trades)
                  /\ trade_records' = Append(trade_records, trade)
                  /\ pc' = IF Tail(rebalancing_trades) = <<>> THEN "record"
                           ELSE "trades"
    /\ UNCHANGED <<frequency, transaction_cost, start_date, end_date,
                   weights, current_date, prices_dict, rebalancing, last_rebalance_date, equity_records,
                   result>>

\* a variant of Record that writes no record for a date without prices
RecordPricedDatesOnly ==
    /\ pc = "record"
    /\ last_rebalance_date' = IF rebalancing THEN current_date
                              ELSE last_rebalance_date
    /\ equity_records' =
           IF prices_dict = NoDict THEN equity_records
           ELSE Append(equity_records,
                       EquityRecord(current_date, get_total_value(prices_dict), cash,
                                    RSum(get_holdings_value(prices_dict),
                                         DOMAIN positions)))
    /\ current_date' = current_date + 1
    /\ pc' = "date"
    /\ UNCHANGED <<ledgerVars, frequency, transaction_cost, start_date,
                   end_date, weights, prices_dict, rebalancing, rebalancing_trades, trade_records,
                   result>>

\* a variant of Record that writes the initial cash into every record
RecordStaleCash ==
    /\ pc = "record"
    /\ last_rebalance_date' = IF rebalancing THEN current_date
                              ELSE last_rebalance_date
    /\ equity_records' =
           Append(equity_records,
                  EquityRecord(current_date, get_total_value(prices_dict),
                               initial_cash,
                               RSum(get_holdings_value(prices_dict),
                                    DOMAIN positions)))
    /\ current_date' = current_date + 1
    /\ pc' = "date"
    /\ UNCHANGED <<ledgerVars, frequency, transaction_cost, start_date,
                   end_date, weights, prices_dict, rebalancing, rebalancing_trades, trade_records,
                   result>>

\* a variant of Record that never moves last_rebalance_date
RecordKeepingLast ==
    /\ pc = "record"
    /\ last_rebalance_date' = last_rebalance_date
    /\ equity_records' =
           Append(equity_records,
                  EquityRecord(current_date, get_total_value(prices_dict), cash,
                               RSum(get_holdings_value(prices_dict),
                                    DOMAIN positions)))
    /\ current_date' = current_date + 1
    /\ pc' = "date"
    /\ UNCHANGED <<ledgerVars, frequency, transaction_cost, start_date,
                   end_date, weights, prices_dict, rebalancing, rebalancing_trades, trade_records,
                   result>>

\* a variant of Record that closes the positions the date has no price for
RecordDroppingUnpriced ==
    /\ pc = "record"
    /\ last_rebalance_date' = IF rebalancing THEN current_date
                              ELSE last_rebalance_date
    /\ equity_records' =
           Append(equity_records,
                  EquityRecord(current_date, get_total_value(prices_dict), cash,
                               RSum(get_holdings_value(prices_dict),
                                    DOMAIN positions)))
    /\ current_date' = current_date + 1
    /\ pc' = "date"
    /\ positions' = [t \in DOMAIN positions \cap DOMAIN prices_dict |-> positions[t]]
    /\ UNCHANGED <<initial_cash, cash, call, raised, ret, net_trades, nCalls, frequency, transaction_cost, start_date,
                   end_date, weights, prices_dict, rebalancing, rebalancing_trades, trade_records,
                   result>>

\* the rest of the loop body: last_rebalance_date after a rebalance, the
\* date's equity record, and on to the next date
Record ==
    /\ pc = "record"
    /\ last_rebalance_date' = IF rebalancing THEN current_date
                              ELSE last_rebalance_date
    /\ equity_records' =
           Append(equity_records,
                  EquityRecord(current_date, get_total_value(prices_dict), cash,
                               RSum(get_holdings_value(prices_dict),
                                    DOMAIN positions)))
    /\ current_date' = current_date + 1
    /\ pc' = "date"
    /\ UNCHANGED <<ledgerVars, frequency, transaction_cost, start_date,
                   end_date, weights, prices_dict, rebalancing, rebalancing_trades, trade_records,
                   result>>

\* after the last date: run returns its result
Finish ==
    /\ pc = "date"
    /\ current_date > end_date
    /\ result' = BacktestResult(equity_records, trade_records)
    /\ pc' = "done"
    /\ UNCHANGED <<ledgerVars, frequency, transaction_cost, start_date,
                   end_date, weights, current_date, prices_dict, rebalancing, rebalancing_trades,
                   last_rebalance_date, equity_records, trade_records>>

NextRun ==
    \/ StartDate
    \/ ApplyTrade
    \/ Record
    \/ Finish

SpecRun == InitRun /\ [][NextRun]_vars

\* ------------------------------------------------------ ledger properties

\* C1: after any sequence of buy and sell calls on a Portfolio created with
\* initial_cash >= 0, cash >= 0 holds in every reachable state.
CashNeverNegative == RLe(RZero, cash)

\* C2: after any sequence of buy and sell calls, no entry of positions has
\* shares <= 0.
PositionsHaveShares ==
    \A t \in DOMAIN positions : RLt(RZero, positions[t].shares)

\* C3: a buy whose cost shares*price exceeds cash raises the insufficient-cash
\* error and leaves cash and positions as they were; a buy whose cost equals
\* cash exactly succeeds and leaves cash at 0.
BuyCashRule ==
    [][call'.op = "buy" =>
       \A s \in ShareArgs, p \in PriceArgs :
          LET t == call'.ticker
              d == call'.date IN
          buy(t, s, p, d) =>
              /\ RLt(cash, RMul(s, p)) =>
                     /\ raised' = "Insufficient cash"
                     /\ UNCHANGED <<cash, positions>>
              /\ RMul(s, p) = cash =>
                     /\ raised' = "None"
                     /\ cash' = RZero]_vars

\* C4: buy called with shares <= 0 raises the invalid-order error and changes
\* neither cash nor positions.
BuyRejectsNonPositiveShares ==
    [][call'.op = "buy" =>
       \A s \in ShareArgs, p \in PriceArgs :
          LET t == call'.ticker
              d == call'.date IN
          (buy(t, s, p, d) /\ RLe(s, RZero)) =>
              /\ raised' = "Shares must be positive"
              /\ UNCHANGED <<cash, positions>>]_vars

\* C5: sell succeeds iff shares > 0, the ticker is held and shares <= held
\* shares; otherwise it raises, in this precedence, invalid-order (shares <= 0),
\* no-position (ticker not held), insufficient-shares (shares > held); every
\* failing sell leaves cash and positions unchanged.
SellSucceedsIffValid ==
    [][call'.op = "sell" =>
       \A s \in ShareArgs, p \in PriceArgs :
          LET t == call'.ticker
              d == call'.date IN
          sell(t, s, p, d) =>
              LET positive == RLt(RZero, s)
                  held == t \in DOMAIN positions
              IN  /\ raised' = "None" <=>
                         (positive /\ held /\ RLe(s, positions[t].shares))
                  /\ ~positive => raised' = "Shares must be positive"
                  /\ (positive /\ ~held) => raised' = "No position"
                  /\ (positive /\ held /\ RLt(positions[t].shares, s)) =>
                         raised' = "Insufficient shares"
                  /\ raised' # "None" => UNCHANGED <<cash, positions>>]_vars

\* C5 witness: a sell of a positive number of shares of a held ticker was
\* refused because it asked for more than is held.
SellRefusedForShares ==
    /\ call.op = "sell"
    /\ raised = "Insufficient shares"
    /\ call.ticker \in DOMAIN positions

\* C6: cash equals initial_cash minus the cost of the buys that succeeded plus
\* the proceeds of the sells that succeeded; failed calls contribute nothing.
CashConservation == cash = RAdd(initial_cash, net_trades)

\* C7: a successful buy of s2 shares at p2 on a ticker held with s1 shares at
\* average cost p1 leaves shares = s1 + s2 and average cost
\* (s1*p1 + s2*p2)/(s1 + s2), stated as avg*(s1 + s2) = s1*p1 + s2*p2; a
\* successful buy of a ticker not held creates a position of s2 shares at p2.
CostBasisAveraging ==
    [][call'.op = "buy" =>
       \A s \in ShareArgs, p \in PriceArgs :
          LET t == call'.ticker
              d == call'.date IN
          (buy(t, s, p, d) /\ raised' = "None") =>
              /\ t \in DOMAIN positions'
              /\ IF t \in DOMAIN positions
                 THEN /\ positions'[t].shares = RAdd(positions[t].shares, s)
                      /\ RMul(positions'[t].entry_price,
                              RAdd(positions[t].shares, s))
                            = RAdd(RMul(positions[t].shares,
                                        positions[t].entry_price),
                                   RMul(s, p))
                 ELSE /\ positions'[t].shares = s
                      /\ positions'[t].entry_price = p]_vars

\* C7 witness: a buy added to a held position and left an average cost that
\* is not a whole number, which no single buy in the inputs can give.
AveragedUp ==
    /\ call.op = "buy"
    /\ raised = "None"
    /\ call.ticker \in DOMAIN positions
    /\ positions[call.ticker].entry_price.d # 1

EntryDateKept ==
    [][\A t \in Tickers :
          /\ (t \in DOMAIN positions /\ t \in DOMAIN positions') =>
                 positions'[t].entry_date = positions[t].entry_date
          /\ (t \notin DOMAIN positions /\ t \in DOMAIN positions') =>
                 /\ call'.op = "buy"
                 /\ call'.ticker = t
                 /\ positions'[t].entry_date = call'.date]_vars

\* C9 witness: a buy dated differently from the position's entry date
\* succeeded on that position.
LaterBuyDone ==
    /\ call.op = "buy"
    /\ raised = "None"
    /\ call.ticker \in DOMAIN positions
    /\ positions[call.ticker].entry_date # call.date

\* ----------------------------------------------------- planner properties

\* C10: in every sequence returned by calculate_trades, every sell is at a
\* lower index than every buy.
SellsBeforeBuys ==
    \A i \in DOMAIN ret, j \in DOMAIN ret :
        (IsSell(ret[i]) /\ IsBuy(ret[j])) => i < j

\* C10 witness: calculate_trades returned both a sell and a buy.
SwapPlanned ==
    /\ call.op = "calculate_trades"
    /\ \E i \in DOMAIN ret : IsSell(ret[i])
    /\ \E j \in DOMAIN ret : IsBuy(ret[j])

\* the planner has just returned its trades for weights and prices_dict
Planned == call.op = "calculate_trades" /\ raised = "None"

\* the indices of the returned trades that are for ticker
TradesOf(ticker) == {i \in DOMAIN ret : ret[i].ticker = ticker}

\* C11: calculate_trades never mutates the ledger: whether it returns trades
\* or fails, cash and positions after the call are what they were before it.
PlannerLeavesLedger ==
    [][call'.op = "calculate_trades" => UNCHANGED <<cash, positions>>]_vars

\* C11 witness: calculate_trades failed on a ledger that holds a position.
PlanRefusedOnHoldings ==
    /\ call.op = "calculate_trades"
    /\ raised # "None"
    /\ positions # NoPositions

\* C13: when calculate_trades returns, every ticker held in the ledger but
\* absent from target_weights (the empty map included) has exactly one trade,
\* a sell of all the shares held.
HeldUntargetedSold ==
    Planned =>
        \A t \in DOMAIN positions \ DOMAIN weights :
            /\ Cardinality(TradesOf(t)) = 1
            /\ \A i \in TradesOf(t) :
                   /\ IsSell(ret[i])
                   /\ ret[i].shares = positions[t].shares

\* C13 witness: calculate_trades returned for an empty target_weights map on
\* a ledger that holds a position.
LiquidationPlanned ==
    /\ Planned
    /\ weights = NoDict
    /\ positions # NoPositions
    /\ ret # <<>>

\* C14: when calculate_trades returns, every targeted or held ticker with a
\* price has at most one trade: with delta = weight*total/price - current
\* shares (compared here after multiplying through by the price, which is
\* positive), a buy of delta shares if delta > 0, a sell of |delta| shares if
\* delta < 0, none if delta = 0; the trade carries the price from prices and
\* the trade date.  A ticker without a price has no trade.
TradesFollowDelta ==
    Planned =>
        \A t \in Universe(weights) :
            IF t \notin DOMAIN prices_dict THEN TradesOf(t) = {}
            ELSE LET total == get_total_value(prices_dict)
                     price == prices_dict[t]
                     gap == RSub(RMul(TargetWeight(weights, t), total),
                                 RMul(CurrentShares(t), price))
                 IN  /\ Cardinality(TradesOf(t)) <= 1
                     /\ gap = RZero => TradesOf(t) = {}
                     /\ gap # RZero => TradesOf(t) # {}
                     /\ \A i \in TradesOf(t) :
                            /\ ret[i].price = price
                            /\ ret[i].date = call.date
                            /\ RLt(RZero, gap) =>
                                   /\ IsBuy(ret[i])
                                   /\ RMul(ret[i].shares, price) = gap
                            /\ RLt(gap, RZero) =>
                                   /\ IsSell(ret[i])
                                   /\ RMul(ret[i].shares, price) = RNeg(gap)

\* C14 witness: calculate_trades returned a trade on a held ticker at a price
\* that is not the position's entry price.
RepricedTradePlanned ==
    /\ Planned
    /\ \E i \in DOMAIN ret :
           /\ ret[i].ticker \in DOMAIN positions
           /\ ret[i].price # positions[ret[i].ticker].entry_price

\* some ticker with a non-zero target weight has no entry in prices
TargetUnpriced ==
    \E t \in DOMAIN weights : weights[t] # RZero /\ t \notin DOMAIN prices_dict

\* C15 as stated: calculate_trades fails with the missing-price error, and
\* returns no trades, whenever some ticker with a non-zero target weight has
\* no price.
MissingPriceAlwaysReported ==
    (call.op = "calculate_trades" /\ TargetUnpriced) =>
        raised = "MissingPrice" /\ ret = <<>>

\* C15: calculate_trades fails with the missing-price error, and returns no
\* trades, whenever some ticker with a non-zero target weight has no price
\* and the ledger's total value at the given prices is positive.
MissingPriceReported ==
    (/\ call.op = "calculate_trades"
     /\ TargetUnpriced
     /\ RLt(RZero, get_total_value(prices_dict))) =>
        raised = "MissingPrice" /\ ret = <<>>

\* C15 witness: calculate_trades was called on a ledger of positive value with
\* a targeted ticker unpriced.
UnpricedTargetPlanned ==
    /\ call.op = "calculate_trades"
    /\ TargetUnpriced
    /\ RLt(RZero, get_total_value(prices_dict))
    /\ positions # NoPositions

\* C16: calculate_trades fails with the invalid-state error, and returns no
\* trades, whenever the ledger's total value at the given prices is <= 0.
NonPositiveTotalRefused ==
    (call.op = "calculate_trades" /\ RLe(get_total_value(prices_dict), RZero)) =>
        raised = "InvalidState" /\ ret = <<>>

\* C16 witness: calculate_trades was called on a ledger worth nothing at the
\* given prices, with a targeted ticker unpriced too.
WorthlessLedgerPlanned ==
    /\ call.op = "calculate_trades"
    /\ RLe(get_total_value(prices_dict), RZero)
    /\ TargetUnpriced

\* --------------------------------------------------------- run properties

\* C12: when the planner is called on the date after a rebalance whose trades
\* were all applied, with the same target weights and the same prices, it
\* returns no trades.
SecondPlanEmpty ==
    [][(/\ pc = "date"
        /\ rebalancing'
        /\ call'.op = "calculate_trades"
        /\ call'.date = current_date
        /\ raised' = "None"
        /\ last_rebalance_date # NoDate
        /\ last_rebalance_date + 1 = current_date
        /\ prices_dict' = prices_dict) => ret' = <<>>]_vars

\* C12 witness: the planner returned no trades on the date after a rebalance
\* that traded, the ledger holding positions and the prices of the tickers
\* traded being those of the day before.
RepeatPlanEmpty ==
    /\ pc = "record"
    /\ Planned
    /\ call.date = current_date
    /\ ret = <<>>
    /\ last_rebalance_date + 1 = current_date
    /\ positions # NoPositions
    /\ trade_records # <<>>
    /\ \A i \in DOMAIN trade_records :
           /\ trade_records[i].ticker \in DOMAIN prices_dict
           /\ trade_records[i].price = prices_dict[trade_records[i].ticker]

AbortOnFirstError ==
    /\ [](/\ pc \in {"date", "trades", "record", "done"} => raised = "None"
          /\ pc = "aborted" => raised # "None" /\ result = NoResult
          /\ result.returned => pc = "done")
    /\ [][(raised' # "None" => pc' = "aborted") /\ pc # "aborted"]_vars

\* C18 witness: a buy failed after an earlier trade of the same rebalance had
\* been applied.
RunAbortedMidRebalance ==
    /\ pc = "aborted"
    /\ call.op = "buy"
    /\ raised = "Insufficient cash"
    /\ trade_records # <<>>

\* the dates _should_rebalance is asked about
ScheduleDates == {s + n : s \in StartDates, n \in 0..(7 + MaxRunDays)}

\* C19: with frequency never, _should_rebalance is true exactly when
\* last_rebalance_date is unset; in a run the planner is called on start_date
\* and on no other date, and every trade record is dated start_date.
NeverRebalancesOnce ==
    /\ [](frequency = "never" =>
             /\ \A today \in ScheduleDates, last \in {NoDate} \cup ScheduleDates :
                    /\ ScheduleError(today, last, "never") = "None"
                    /\ should_rebalance(today, last, "never") <=> last = NoDate
             /\ \A i \in DOMAIN trade_records :
                    trade_records[i].date = start_date)
    /\ [][(frequency = "never" /\ pc = "date" /\ pc' # "done") =>
             /\ rebalancing' <=> current_date = start_date
             /\ rebalancing' <=> (/\ call'.op = "calculate_trades"
                                  /\ call'.date = current_date)]_vars

\* C19 witness: a never run over several dates returned with trades.
NeverRunTraded ==
    /\ frequency = "never"
    /\ pc = "done"
    /\ Len(result.equity_curve) >= 2
    /\ result.trades # <<>>

\* C20: with frequency weekly, _should_rebalance returns true on the first
\* date of a run (last_rebalance_date unset), afterwards exactly when
\* current_date - last_rebalance_date >= 7 days, and never fails.
WeeklySchedule ==
    frequency = "weekly" =>
        /\ raised # "TypeError"
        /\ (pc \in {"trades", "record"} /\ last_rebalance_date = NoDate) =>
               rebalancing
        /\ (pc \in {"trades", "record"} /\ last_rebalance_date # NoDate) =>
               (rebalancing <=> current_date - last_rebalance_date >= 7)

\* the date of the same day number a year after EpochYear's
YearLater(date) == date + (IF IsLeap(EpochYear) THEN 366 ELSE 365)

\* the two dates fall in the same month of the same year
SameMonth(a, b) ==
    /\ DateOf(a).month = DateOf(b).month
    /\ DateOf(a).year = DateOf(b).year

\* dates of a run, and mid-January dates before them
RunDates == {s + n : s \in StartDates, n \in 0..MaxRunDays}
MonthlyDates == RunDates \cup {s - 15 : s \in StartDates}

\* C21: with frequency monthly, _should_rebalance is true exactly when
\* last_rebalance_date is unset or its (month, year) differs from
\* current_date's, the same month a year later counting as different; a run
\* rebalances on the first date it simulates in each calendar month and on no
\* other date.
MonthlySchedule ==
    /\ []((frequency = "monthly" /\ pc = "date") =>
             \A last \in {NoDate} \cup MonthlyDates :
                 \A today \in MonthlyDates \cup {YearLater(d) : d \in MonthlyDates} :
                     last <= today =>
                         /\ ScheduleError(today, last, "monthly") = "None"
                         /\ should_rebalance(today, last, "monthly") <=>
                                (last = NoDate \/ ~SameMonth(last, today)))
    /\ [][(frequency = "monthly" /\ pc = "date" /\ pc' # "done") =>
             (rebalancing' <=> (\/ current_date = start_date
                                \/ ~SameMonth(current_date - 1, current_date)))]_vars

\* C21 witness: a monthly run returned after rebalancing on its first date,
\* not on the next date of the same month, and again on the first of the
\* following month.
MonthlyRunCrossedMonth ==
    /\ frequency = "monthly"
    /\ pc = "done"
    /\ SameMonth(start_date, start_date + 1)
    /\ last_rebalance_date = start_date + 2
    /\ ~SameMonth(start_date, last_rebalance_date)

\* C22: a rebalance_frequency outside daily, weekly, monthly, never is
\* rejected as a configuration error: a run with such a value does not return.
UnknownFrequencyRejected ==
    frequency \notin {"daily", "weekly", "monthly", "never"} => pc # "done"

\* the run of the docstring example, with frequency never
ExampleRun ==
    /\ initial_cash = R(ExampleCash)
    /\ weights = ExampleWeights
    /\ frequency = "never"
    /\ start_date = ExampleStart
    /\ end_date = ExampleStart + 1

\* C23: the run with 10000 in cash, target {AAPL: 1.0}, frequency never, AAPL
\* closing at 100 on day 1 and at 110 on day 2 does not abort, and returns a
\* trade log of the one entry buy 100 AAPL at 100 on day 1 and the equity
\* records (10000, 0, 10000) for day 1 and (11000, 0, 11000) for day 2.
DocstringExample ==
    ExampleRun =>
        /\ pc # "aborted"
        /\ pc = "done" =>
               /\ result.trades =
                      <<Trade(ExampleStart, "AAPL", R(100), R(100), "buy")>>
               /\ result.equity_curve =
                      <<EquityRecord(ExampleStart, R(10000), RZero, R(10000)),
                        EquityRecord(ExampleStart + 1, R(11000), RZero, R(11000))>>

\* C23 witness: the example's run returned.
ExampleRunReturned == ExampleRun /\ pc = "done" /\ result.returned

\* the price dicts a ledger is valued at: any tickers, at 1 or at MaxPrice
ValuationPrices == Dicts({R(1), R(MaxPrice)})

\* the held tickers that have an entry in prices
Priced(prices) == DOMAIN positions \cap DOMAIN prices

\* sum of shares*prices[ticker] over the held tickers priced
MarketValue(prices) ==
    RSum([t \in Priced(prices) |-> RMul(positions[t].shares, prices[t])],
         Priced(prices))

\* sum of shares*average cost over the held tickers priced
CostBasis(prices) ==
    RSum([t \in Priced(prices) |->
             RMul(positions[t].shares, positions[t].entry_price)],
         Priced(prices))

\* C24: total_value(prices) is cash plus the sum of shares*prices[ticker] over
\* the held tickers that have a price, a held ticker without one adding
\* nothing; with no prices argument it is the cash.
TotalValueRule ==
    /\ \A pr \in ValuationPrices :
           get_total_value(pr) = RAdd(cash, MarketValue(pr))
    /\ get_total_value(NoPrices) = cash

\* C24 witness: two tickers are held, so that a price dict of one ticker
\* leaves the other unpriced.
TwoTickersHeld == Cardinality(DOMAIN positions) = 2

\* C25: unrealized_pnl(prices) is the sum of shares*(prices[ticker] - average
\* cost) over the held tickers that have a price, stated as pnl + their cost
\* basis = their market value; a position without a price adds 0, and with no
\* position priced, or none held, the P&L is 0.
UnrealizedPnlRule ==
    \A pr \in ValuationPrices :
        /\ RAdd(get_unrealized_pnl(pr), CostBasis(pr)) = MarketValue(pr)
        /\ Priced(pr) = {} => get_unrealized_pnl(pr) = RZero

\* C25 witness: two positions are held at different average costs.
TwoCostBases ==
    \E t \in DOMAIN positions, u \in DOMAIN positions :
        positions[t].entry_price # positions[u].entry_price

\* C26: every equity record has portfolio_value = cash + positions_value; the
\* record written for a date carries the ledger's cash after that date's
\* trades and the sum of the holdings' values at that date's prices.
EquityRecordAddsUp ==
    /\ [](\A i \in DOMAIN equity_records :
              equity_records[i].portfolio_value =
                  RAdd(equity_records[i].cash, equity_records[i].positions_value))
    /\ [][pc = "record" =>
             LET written == equity_records'[Len(equity_records')]
             IN  /\ written.date = current_date
                 /\ written.cash = cash
                 /\ written.positions_value = MarketValue(prices_dict)]_vars

\* C26 witness: a record was written with both cash and holdings of value.
MixedRecordWritten ==
    \E i \in DOMAIN equity_records :
        /\ equity_records[i].cash # RZero
        /\ equity_records[i].positions_value # RZero

TradeLogFollowsLedger ==
    /\ [](/\ pc = "trades" => rebalancing /\ rebalancing_trades # <<>>
          /\ pc = "done" => result.trades = trade_records)
    /\ [][/\ (pc = "date" /\ pc' = "trades") => rebalancing_trades' = ret'
          /\ pc = "trades" =>
                 LET trade == Head(rebalancing_trades)
                 IN  /\ call' = Call(trade.side, trade.ticker, trade.date)
                     /\ raised' = "None" =>
                            /\ trade_records' = Append(trade_records, trade)
                            /\ rebalancing_trades' = Tail(rebalancing_trades)
                     /\ raised' # "None" => trade_records' = trade_records
          /\ pc # "trades" => trade_records' = trade_records]_vars

\* C28 witness: the trade log holds trades of two dates.
TradesOnTwoDates ==
    \E i \in DOMAIN trade_records, j \in DOMAIN trade_records :
        trade_records[i].date < trade_records[j].date

\* C29: last_rebalance_date is unset until the first date is done, becomes
\* the current date at the end of every date on which _should_rebalance was
\* true, stays as it is on every other date, and never decreases.
LastRebalanceDateTracks ==
    /\ [](current_date = start_date => last_rebalance_date = NoDate)
    /\ [][/\ pc = "record" =>
                 last_rebalance_date' = IF rebalancing THEN current_date
                                        ELSE last_rebalance_date
          /\ pc # "record" => last_rebalance_date' = last_rebalance_date
          /\ last_rebalance_date' >= last_rebalance_date]_vars

\* C29 witness: a date on which the planner returned no trade was recorded
\* as the last rebalance date.
EmptyRebalanceDated ==
    /\ pc = "date"
    /\ current_date > start_date
    /\ last_rebalance_date = current_date - 1
    /\ trade_records = <<>>

\* C30: with target weights that are all >= 0 and sum to at most 1, every
\* trade of a plan the planner returned (so every ticker traded has a positive
\* price and the total value is positive) is applied without error.
FundedRebalanceApplies ==
    [][(pc = "trades" /\ RLe(RSum(weights, DOMAIN weights), R(1))) =>
          raised' = "None"]_vars

\* C30 witness: a buy went through on the cash a sell of the same date had
\* just freed, leaving none.
SaleFundedBuy ==
    /\ pc = "record"
    /\ call.op = "buy"
    /\ raised = "None"
    /\ cash = RZero
    /\ \E i \in DOMAIN trade_records :
           /\ trade_records[i].date = current_date
           /\ IsSell(trade_records[i])

\* the value at prices of a ledger with the given cash and positions
ValueOf(cash_held, held, prices) ==
    RAdd(cash_held,
         RSum([t \in DOMAIN held \cap DOMAIN prices |->
                  RMul(held[t].shares, prices[t])],
              DOMAIN held \cap DOMAIN prices))

\* C31: a rebalance preserves total value: no trade applied changes the
\* ledger's total value at the date's prices, and once all the trades of a
\* plan are applied every targeted ticker is held for weight * total, the
\* rest of the total being cash.
RebalancePreservesValue ==
    /\ [][(pc = "trades" /\ raised' = "None") =>
             ValueOf(cash', positions', prices_dict)
                 = ValueOf(cash, positions, prices_dict)]_vars
    /\ []((pc = "record" /\ rebalancing) =>
             LET total == get_total_value(prices_dict)
                 target == [t \in DOMAIN weights |-> RMul(weights[t], total)]
             IN  /\ \A t \in DOMAIN weights :
                        RMul(CurrentShares(t), PriceOrZero(prices_dict, t))
                            = target[t]
                 /\ cash = RSub(total, RSum(target, DOMAIN weights)))

\* C31 witness: a rebalance after the first date traded and left both cash
\* and positions.
LaterRebalanceDone ==
    /\ pc = "record"
    /\ rebalancing
    /\ current_date > start_date
    /\ call.op \in {"buy", "sell"}
    /\ call.date = current_date
    /\ cash # RZero
    /\ positions # NoPositions

\* C32: on a date on which _should_rebalance is false no step touches the
\* ledger's cash or positions, and the cash of the date's equity record is
\* that of the record before it.
QuietDateLeavesLedger ==
    [][(/\ pc \in {"date", "record"}
        /\ current_date <= end_date
        /\ ScheduleError(current_date, last_rebalance_date, frequency) = "None"
        /\ ~should_rebalance(current_date, last_rebalance_date, frequency)) =>
          /\ UNCHANGED <<cash, positions>>
          /\ (pc = "record" /\ equity_records # <<>>) =>
                 equity_records'[Len(equity_records')].cash
                     = equity_records[Len(equity_records)].cash]_vars

\* C32 witness: a date without a rebalance was recorded while positions were
\* held.
QuietDateRecorded ==
    /\ pc = "date"
    /\ ~rebalancing
    /\ current_date > start_date
    /\ last_rebalance_date # NoDate
    /\ last_rebalance_date < current_date - 1
    /\ positions # NoPositions

\* C33: on a date without a rebalance and without rows in the price table,
\* the equity record has positions_value 0 and portfolio_value = cash although
\* positions are held, and the positions stay as they are.
UnpricedDateRecord ==
    [][(/\ pc = "record"
        /\ ~rebalancing
        /\ prices_dict = NoDict
        /\ positions # NoPositions) =>
          LET written == equity_records'[Len(equity_records')]
          IN  /\ written.positions_value = RZero
              /\ written.portfolio_value = cash
              /\ written.cash = cash
              /\ positions' = positions]_vars

\* C33 witness: between two records that value the holdings lies one with
\* positions_value 0, and the run returned.
HoldingsValuedAgain ==
    /\ pc = "done"
    /\ \E i \in DOMAIN equity_records :
           /\ i - 1 \in DOMAIN equity_records
           /\ i + 1 \in DOMAIN equity_records
           /\ equity_records[i - 1].positions_value # RZero
           /\ equity_records[i].positions_value = RZero
           /\ equity_records[i + 1].positions_value # RZero
====
